---- MODULE Spec2Model ----
(***************************************************************************)
(* The retry executor of retry_reloaded: one invocation of the wrapper     *)
(* produced by retry(...)(f), step by step, together with the operation f  *)
(* it drives, the clock it reads and the hooks it calls.                   *)
(*                                                                         *)
(* Optional values (max_retries, timeout, deadline) are sequences: <<>> is *)
(* Python's None and <<x>> is the number x.  Time is counted in ticks.     *)
(* Callbacks and the logger are taken to return normally.                  *)
(*                                                                         *)
(* Spec follows one wrapper invocation.  SpecBackOff follows one BackOff   *)
(* instance used directly (delay and reset), SpecCalls several interleaved *)
(* invocations of one wrapped function sharing the wrap-time BackOff       *)
(* instance, SpecSequential the same invocations one after the other,      *)
(* SpecWrap one call of retry(...) and the decoration that follows it.     *)
(* Delays and constructor arguments are integers.                          *)
(***************************************************************************)
EXTENDS Integers, Sequences, FiniteSets, TLC

\* ---------------------------------------------------------------- bounds
MaxCalls == 4         \* the operation is invoked at most this often in a run
MaxRetriesCfg == 2    \* max_retries is None or 0..MaxRetriesCfg
MaxBudget == 2        \* timeout and deadline are None or 0..MaxBudget
MaxTime == 3          \* the real clock is followed up to this tick

\* ---------------------------------------------------------------- values
None == <<>>
Some(x) == <<x>>

\* `if timeout:` / `if deadline:` -- None and 0 are both falsy
Truthy(o) == o # None /\ o[1] # 0

\* the classes an `except` clause can name, and their direct base class
Superclass ==
  [ ValueError |-> "Exception",
    TypeError |-> "Exception",
    BaseRetryException |-> "Exception",
    MaxRetriesException |-> "BaseRetryException",
    RetriesTimeoutException |-> "BaseRetryException",
    RetriesDeadlineException |-> "BaseRetryException" ]

RECURSIVE IsSubclass(_, _)
IsSubclass(kind, cls) ==
  IF kind = cls THEN TRUE
  ELSE IF kind = "Exception" THEN FALSE
  ELSE IsSubclass(Superclass[kind], cls)

\* isinstance(exc, classes) for a tuple of classes
IsInstance(exc, classes) == \E c \in classes : IsSubclass(exc.kind, c)

\* the kinds of error the operation raises
OpErrorKinds == {"ValueError", "TypeError"}

NoExc == [kind |-> "None", id |-> 0]
\* the error raised by the n-th invocation of the operation
OpError(kind, n) == [kind |-> kind, id |-> n]
\* a terminal signal constructed by the wrapper
Signal(kind) == [kind |-> kind, id |-> 0]

\* no BackOff instance is under direct use
NoStrategy == [cls |-> "None"]

\* the parameters of _validate_args, retry's own and their order
Parameters ==
  {"exceptions", "excluded_exceptions", "max_retries", "backoff",
   "timeout", "deadline", "logger", "log_retry_traceback",
   "failure_callback", "retry_callback", "successful_retry_callback",
   "reraise_exception"}

\* what an argument can be: a value of one of these kinds ("int" is a
\* positive int, "zero" the int 0, "negative_int" an int below 0, "float" a
\* positive float, "str" a non-empty string; every item of
\* tuple_of_exceptions and of list_of_exceptions is a subclass of
\* Exception, the empty tuple included)
ArgumentKinds ==
  {"None", "bool", "int", "zero", "negative_int", "float", "str",
   "function", "Logger", "BackOff", "tuple_of_exceptions",
   "tuple_with_non_exception", "list_of_exceptions"}

\* retry(): every parameter at its default
DefaultArgs ==
  [exceptions |-> "tuple_of_exceptions",
   excluded_exceptions |-> "tuple_of_exceptions",
   max_retries |-> "None", backoff |-> "BackOff", timeout |-> "None",
   deadline |-> "None", logger |-> "Logger",
   log_retry_traceback |-> "bool", failure_callback |-> "None",
   retry_callback |-> "None", successful_retry_callback |-> "None",
   reraise_exception |-> "bool"]

\* no call of retry(...) is under way
NoRetryCall ==
  [pc |-> "none", args |-> DefaultArgs, raised |-> None, f_calls |-> 0]

\* a dict without keys
EmptyDict == [k \in {} |-> 0]

\* no callback adapter has been built
NoAdapter ==
  [kind |-> "none", kwargs |-> EmptyDict, bound |-> EmptyDict,
   calls |-> 0, override_kwargs |-> EmptyDict,
   runtime_kwargs |-> EmptyDict, overridden |-> FALSE]

NoOutcome == [type |-> "none", val |-> 0, exc |-> NoExc]
Returned(v) == [type |-> "return", val |-> v, exc |-> NoExc]
Raised(e) == [type |-> "raise", val |-> 0, exc |-> e]

\* ---------------------------------------------------------------- state
VARIABLES
  \* configuration given to retry(...), read-only afterwards
  exceptions, excluded_exceptions, max_retries, timeout, deadline,
  reraise_exception, logger, failure_callback, retry_callback,
  successful_retry_callback, backoff,
  \* the clock: "real" (time.time) or "mocked" (conftest.mocked_time)
  clock, now,
  \* locals of the wrapper
  pc, start_time, retries, _backoff, last_exception, original_exc,
  result, delay, elapsed_time_before, elapsed_time_after,
  \* what the outside world saw: the operation's outcomes in order, the
  \* terminal signals constructed in order, the wrapper's outcome, and how
  \* often each hook, check, delay read and sleep happened
  calls, op_trace, signals, outcome, retry_cb_calls, success_cb_calls,
  failure_cb_calls, timeout_checks, deadline_checks, delay_reads, sleeps,
  retry_logs, error_logs,
  \* several invocations of one wrapped function, each with its own locals
  \* (pc, _backoff, retries, the delays it read); they share `backoff`
  invocations,
  \* a BackOff instance used directly, the values its delay returned, and
  \* how many of them were read since construction or the last reset
  strategy, read_values, reads_since_reset,
  wrapping, adapter

cfgVars == <<exceptions, excluded_exceptions, max_retries, timeout, deadline,
             reraise_exception, logger, failure_callback, retry_callback,
             successful_retry_callback, backoff, clock>>
localVars == <<pc, start_time, retries, _backoff, last_exception,
               original_exc, result, delay, elapsed_time_before,
               elapsed_time_after>>
seenVars == <<calls, op_trace, signals, outcome, retry_cb_calls,
              success_cb_calls, failure_cb_calls, timeout_checks,
              deadline_checks, delay_reads, sleeps, retry_logs, error_logs>>
\* the state outside a single wrapper invocation
apartVars ==
  <<invocations, strategy, read_values, reads_since_reset, wrapping,
    adapter>>
vars == <<cfgVars, now, localVars, seenVars, apartVars>>

\* ---------------------------------------------------------------- config
ExceptionTuples ==
  { <<{"Exception"}, {}>>,
    <<{"Exception"}, {"ValueError"}>>,
    <<{"ValueError"}, {}>>,
    <<{"ValueError", "TypeError"}, {}>>,
    <<{"ValueError", "TypeError"}, {"ValueError"}>> }

Optionals(n) == {None} \cup {Some(x) : x \in 0..n}

\* (logger, failure_callback, retry_callback, successful_retry_callback)
\* the defaults, and no logger with every callback given
HookConfigs ==
  { <<TRUE, FALSE, FALSE, FALSE>>,
    <<FALSE, TRUE, TRUE, TRUE>> }

\* the default FixedBackOff(base_delay=0), and the tests' base_delay=1
BaseDelays == {0, 1}

\* FixedBackOff(base_delay): BackOff.__init__
FixedBackOff(base_delay) ==
  [_base_delay |-> base_delay, _delay |-> base_delay, _round |-> 0]

\* the state at the call of the wrapper, the hooks drawn from hookConfigs
\* and max_retries from retryCaps
InitWith(hookConfigs, retryCaps) ==
  /\ \E et \in ExceptionTuples :
       exceptions = et[1] /\ excluded_exceptions = et[2]
  /\ max_retries \in retryCaps
  /\ timeout \in Optionals(MaxBudget)
  /\ deadline \in Optionals(MaxBudget)
  /\ reraise_exception \in BOOLEAN
  /\ \E h \in hookConfigs :
       /\ logger = h[1]
       /\ failure_callback = h[2]
       /\ retry_callback = h[3]
       /\ successful_retry_callback = h[4]
  /\ backoff \in {FixedBackOff(d) : d \in BaseDelays}
  /\ clock \in {"real", "mocked"}
  /\ now = 0
  /\ pc = "start"
  /\ start_time = 0
  /\ retries = 0
  /\ _backoff = backoff
  /\ last_exception = NoExc
  /\ original_exc = NoExc
  /\ result = 0
  /\ delay = 0
  /\ elapsed_time_before = None
  /\ elapsed_time_after = None
  /\ calls = 0
  /\ op_trace = <<>>
  /\ timeout_checks = 0
  /\ deadline_checks = 0
  /\ outcome = NoOutcome
  /\ retry_cb_calls = 0
  /\ success_cb_calls = 0
  /\ failure_cb_calls = 0
  /\ delay_reads = 0
  /\ sleeps = 0
  /\ retry_logs = 0
  /\ error_logs = 0
  /\ signals = <<>>
  /\ invocations = <<>>
  /\ strategy = NoStrategy
  /\ read_values = <<>>
  /\ reads_since_reset = 0
  /\ wrapping = NoRetryCall
  /\ adapter = NoAdapter

Init == InitWith(HookConfigs, Optionals(MaxRetriesCfg))

\* a logger and every callback given at once
AllHooks == { <<TRUE, TRUE, TRUE, TRUE>> }

InitAllHooks == InitWith(AllHooks, Optionals(MaxRetriesCfg))

\* every int passes `isinstance(max_retries, int)`, a negative one too
IntegerCaps == {Some(n) : n \in -1..MaxRetriesCfg}

InitIntegerCaps == InitWith(AllHooks, IntegerCaps)

\* a positive timeout and no max_retries
InitTimeoutOnly == InitWith(AllHooks, {None}) /\ Truthy(timeout)

\* ---------------------------------------------------------------- clock
\* time(): time.time reads the clock; the mocked generator also steps it
AfterTime == IF clock = "mocked" THEN now + 1 ELSE now

\* a bug: the start time is taken anew at every measurement
ElapsedFromNow == now - now

\* time() - start_time
Elapsed == now - start_time

\* a bug: the budget counts as exceeded when it is just reached
ExceededOrReached(elapsed, budget) == elapsed >= budget

\* `elapsed_time_before > timeout`, `elapsed_time_after > deadline`
Exceeded(elapsed, budget) == elapsed > budget

\* ---------------------------------------------------------------- helpers
\* a bug: the exclusion is not consulted, so a retryable kind wins
IsExcludedNever(exc) == FALSE

\* an error of an excluded kind is not handled by the wrapper
IsExcluded(exc) == IsInstance(exc, excluded_exceptions)

\* `except exceptions as original_exc` takes the error
Caught(exc) == IsInstance(exc, exceptions) /\ ~IsExcluded(exc)

\* a bug: a bare `except Exception` that takes every error
RaiseInTryCatchAll(exc) ==
  /\ pc' = "except"
  /\ original_exc' = exc
  /\ outcome' = outcome

\* an error raised inside the try block: into the except clause, or out of
\* the wrapper to the caller
RaiseInTry(exc) ==
  IF Caught(exc)
  THEN /\ pc' = "except"
       /\ original_exc' = exc
       /\ outcome' = outcome
  ELSE /\ pc' = "done"
       /\ original_exc' = original_exc
       /\ outcome' = Raised(exc)

\* a bug: the constructor logs but forgets the callback
ConstructSignalNoCallback(kind) ==
  /\ error_logs' = IF logger THEN error_logs + 1 ELSE error_logs
  /\ failure_cb_calls' = failure_cb_calls
  /\ signals' = Append(signals, kind)

\* BaseRetryException.__init__: log the message, call failure_callback
ConstructSignal(kind) ==
  /\ error_logs' = IF logger THEN error_logs + 1 ELSE error_logs
  /\ failure_cb_calls' =
       IF failure_callback THEN failure_cb_calls + 1 ELSE failure_cb_calls
  /\ signals' = Append(signals, kind)

NoSignal == UNCHANGED <<error_logs, failure_cb_calls, signals>>

\* a bug: the except clause treats its own signals like any caught error
\* (the wrapper of src/retry/retry.py has no such test)
IsTerminalSignalNever(exc) == FALSE

\* a bug: the deadline signal is missing from the isinstance tuple
IsTerminalSignalTimeoutOnly(exc) ==
  IsInstance(exc, {"RetriesTimeoutException"})

\* isinstance(original_exc, (RetriesTimeoutException, RetriesDeadlineException))
IsTerminalSignal(exc) ==
  IsInstance(exc, {"RetriesTimeoutException", "RetriesDeadlineException"})

\* a bug: only the first error of the invocation is recorded
RecordedFirstException ==
  IF last_exception = NoExc THEN original_exc ELSE last_exception

\* last_exception = original_exc
RecordedException == original_exc

\* a bug: the cap is reached one retry early
RetriesExhaustedEarly == max_retries # None /\ retries + 1 >= max_retries[1]

\* a bug: the cap is reached one retry late
RetriesExhaustedLate == max_retries # None /\ retries = max_retries[1] + 1

\* max_retries is not None and retries == max_retries
RetriesExhausted == max_retries # None /\ retries = max_retries[1]

\* ---------------------------------------------------------------- steps
\* wrapper entry: start_time, retries, the private reset copy of backoff
Start ==
  /\ pc = "start"
  /\ start_time' = now
  /\ now' = AfterTime
  /\ retries' = 0
  /\ _backoff' = [backoff EXCEPT !._round = 0]
  /\ last_exception' = NoExc
  /\ pc' = "precheck"
  /\ UNCHANGED apartVars
  /\ UNCHANGED <<cfgVars, original_exc, result, delay, elapsed_time_before,
                 elapsed_time_after, seenVars>>

\* a bug: the first attempt is let through without looking at the clock
TimeoutCheckOnRetriesOnly ==
  /\ pc = "precheck"
  /\ IF Truthy(timeout) /\ retries > 0
     THEN /\ elapsed_time_before' = Some(Elapsed)
          /\ now' = AfterTime
          /\ timeout_checks' = timeout_checks + 1
          /\ IF Exceeded(Elapsed, timeout[1])
             THEN /\ ConstructSignal("RetriesTimeoutException")
                  /\ RaiseInTry(Signal("RetriesTimeoutException"))
             ELSE /\ NoSignal
                  /\ pc' = "call"
                  /\ UNCHANGED <<original_exc, outcome>>
     ELSE /\ pc' = "call"
          /\ NoSignal
          /\ UNCHANGED <<now, elapsed_time_before, timeout_checks,
                         original_exc, outcome>>
  /\ UNCHANGED apartVars
  /\ UNCHANGED <<cfgVars, start_time, retries, _backoff, last_exception,
                 result, delay, elapsed_time_after, calls, op_trace,
                 retry_cb_calls, success_cb_calls, deadline_checks,
                 delay_reads, sleeps, retry_logs>>

\* the timeout check before the attempt
TimeoutCheck ==
  /\ pc = "precheck"
  /\ IF Truthy(timeout)
     THEN /\ elapsed_time_before' = Some(Elapsed)
          /\ now' = AfterTime
          /\ timeout_checks' = timeout_checks + 1
          /\ IF Exceeded(Elapsed, timeout[1])
             THEN /\ ConstructSignal("RetriesTimeoutException")
                  /\ RaiseInTry(Signal("RetriesTimeoutException"))
             ELSE /\ NoSignal
                  /\ pc' = "call"
                  /\ UNCHANGED <<original_exc, outcome>>
     ELSE /\ pc' = "call"
          /\ NoSignal
          /\ UNCHANGED <<now, elapsed_time_before, timeout_checks,
                         original_exc, outcome>>
  /\ UNCHANGED apartVars
  /\ UNCHANGED <<cfgVars, start_time, retries, _backoff, last_exception,
                 result, delay, elapsed_time_after, calls, op_trace,
                 retry_cb_calls, success_cb_calls, deadline_checks,
                 delay_reads, sleeps, retry_logs>>

\* result = f(*args, **kwargs): the operation returns or raises
Invoke ==
  /\ pc = "call"
  /\ calls < MaxCalls
  /\ calls' = calls + 1
  /\ \/ /\ result' = calls + 1
        /\ op_trace' = Append(op_trace, "return")
        /\ pc' = "postcheck"
        /\ UNCHANGED <<original_exc, outcome>>
     \/ /\ \E kind \in OpErrorKinds :
             /\ op_trace' = Append(op_trace, kind)
             /\ RaiseInTry(OpError(kind, calls + 1))
        /\ result' = result
  /\ UNCHANGED apartVars
  /\ UNCHANGED <<cfgVars, now, start_time, retries, _backoff, last_exception,
                 delay, elapsed_time_before, elapsed_time_after, signals,
                 retry_cb_calls, success_cb_calls, failure_cb_calls,
                 timeout_checks, deadline_checks, delay_reads, sleeps,
                 retry_logs, error_logs>>

\* a bug: without a deadline the timeout is applied after the attempt too
DeadlineCheckOrTimeout ==
  /\ pc = "postcheck"
  /\ IF Truthy(deadline) \/ Truthy(timeout)
     THEN /\ elapsed_time_after' = Some(Elapsed)
          /\ now' = AfterTime
          /\ deadline_checks' = deadline_checks + 1
          /\ IF Truthy(deadline) /\ Exceeded(Elapsed, deadline[1])
             THEN /\ ConstructSignal("RetriesDeadlineException")
                  /\ RaiseInTry(Signal("RetriesDeadlineException"))
             ELSE IF ~Truthy(deadline) /\ Exceeded(Elapsed, timeout[1])
             THEN /\ ConstructSignal("RetriesTimeoutException")
                  /\ RaiseInTry(Signal("RetriesTimeoutException"))
             ELSE /\ NoSignal
                  /\ pc' = "success"
                  /\ UNCHANGED <<original_exc, outcome>>
     ELSE /\ pc' = "success"
          /\ NoSignal
          /\ UNCHANGED <<now, elapsed_time_after, deadline_checks,
                         original_exc, outcome>>
  /\ UNCHANGED apartVars
  /\ UNCHANGED <<cfgVars, start_time, retries, _backoff, last_exception,
                 result, delay, elapsed_time_before, calls, op_trace,
                 retry_cb_calls, success_cb_calls, timeout_checks,
                 delay_reads, sleeps, retry_logs>>

\* the deadline check after an attempt that returned
DeadlineCheck ==
  /\ pc = "postcheck"
  /\ IF Truthy(deadline)
     THEN /\ elapsed_time_after' = Some(Elapsed)
          /\ now' = AfterTime
          /\ deadline_checks' = deadline_checks + 1
          /\ IF Exceeded(Elapsed, deadline[1])
             THEN /\ ConstructSignal("RetriesDeadlineException")
                  /\ RaiseInTry(Signal("RetriesDeadlineException"))
             ELSE /\ NoSignal
                  /\ pc' = "success"
                  /\ UNCHANGED <<original_exc, outcome>>
     ELSE /\ pc' = "success"
          /\ NoSignal
          /\ UNCHANGED <<now, elapsed_time_after, deadline_checks,
                         original_exc, outcome>>
  /\ UNCHANGED apartVars
  /\ UNCHANGED <<cfgVars, start_time, retries, _backoff, last_exception,
                 result, delay, elapsed_time_before, calls, op_trace,
                 retry_cb_calls, success_cb_calls, timeout_checks,
                 delay_reads, sleeps, retry_logs>>

\* a bug: the callback is called on every success, retried or not
SucceedCallbackAlways ==
  /\ pc = "success"
  /\ success_cb_calls' =
       IF successful_retry_callback
       THEN success_cb_calls + 1 ELSE success_cb_calls
  /\ outcome' = Returned(result)
  /\ pc' = "done"
  /\ UNCHANGED apartVars
  /\ UNCHANGED <<cfgVars, now, start_time, retries, _backoff, last_exception,
                 original_exc, result, delay, elapsed_time_before,
                 elapsed_time_after, calls, op_trace, signals,
                 retry_cb_calls, failure_cb_calls, timeout_checks,
                 deadline_checks, delay_reads, sleeps, retry_logs,
                 error_logs>>

\* successful_retry_callback after a retry, then return result
Succeed ==
  /\ pc = "success"
  /\ success_cb_calls' =
       IF retries > 0 /\ successful_retry_callback
       THEN success_cb_calls + 1 ELSE success_cb_calls
  /\ outcome' = Returned(result)
  /\ pc' = "done"
  /\ UNCHANGED apartVars
  /\ UNCHANGED <<cfgVars, now, start_time, retries, _backoff, last_exception,
                 original_exc, result, delay, elapsed_time_before,
                 elapsed_time_after, calls, op_trace, signals,
                 retry_cb_calls, failure_cb_calls, timeout_checks,
                 deadline_checks, delay_reads, sleeps, retry_logs,
                 error_logs>>

\* FixedBackOff._calculate_next_delay (no jitter configured)
CalculateNextDelay(b) ==
  [b EXCEPT !._delay = b._base_delay, !._round = b._round + 1]

\* a bug: the delay is read before the max_retries decision
HandleDelayBeforeCheck ==
  /\ pc = "except"
  /\ IF IsTerminalSignal(original_exc)
     THEN /\ outcome' = Raised(IF reraise_exception /\ last_exception # NoExc
                               THEN last_exception ELSE original_exc)
          /\ pc' = "done"
          /\ NoSignal
          /\ UNCHANGED <<last_exception, _backoff, delay, delay_reads>>
     ELSE /\ last_exception' = RecordedException
          /\ _backoff' = CalculateNextDelay(_backoff)
          /\ delay' = _backoff'._delay
          /\ delay_reads' = delay_reads + 1
          /\ IF RetriesExhausted
             THEN /\ pc' = "done"
                  /\ IF reraise_exception /\ last_exception' # NoExc
                     THEN /\ outcome' = Raised(last_exception')
                          /\ NoSignal
                     ELSE /\ ConstructSignal("MaxRetriesException")
                          /\ outcome' = Raised(Signal("MaxRetriesException"))
             ELSE /\ pc' = "log"
                  /\ NoSignal
                  /\ UNCHANGED outcome
  /\ UNCHANGED apartVars
  /\ UNCHANGED <<cfgVars, now, start_time, retries, original_exc,
                 result, elapsed_time_before, elapsed_time_after,
                 calls, op_trace, retry_cb_calls, success_cb_calls,
                 timeout_checks, deadline_checks, sleeps, retry_logs>>

\* the except clause up to the max_retries decision
Handle ==
  /\ pc = "except"
  /\ IF IsTerminalSignal(original_exc)
     THEN /\ outcome' = Raised(IF reraise_exception /\ last_exception # NoExc
                               THEN last_exception ELSE original_exc)
          /\ pc' = "done"
          /\ NoSignal
          /\ UNCHANGED last_exception
     ELSE /\ last_exception' = RecordedException
          /\ IF RetriesExhausted
             THEN /\ pc' = "done"
                  /\ IF reraise_exception /\ last_exception' # NoExc
                     THEN /\ outcome' = Raised(last_exception')
                          /\ NoSignal
                     ELSE /\ ConstructSignal("MaxRetriesException")
                          /\ outcome' = Raised(Signal("MaxRetriesException"))
             ELSE /\ pc' = "delay"
                  /\ NoSignal
                  /\ UNCHANGED outcome
  /\ UNCHANGED apartVars
  /\ UNCHANGED <<cfgVars, now, start_time, retries, _backoff, original_exc,
                 result, delay, elapsed_time_before, elapsed_time_after,
                 calls, op_trace, retry_cb_calls, success_cb_calls,
                 timeout_checks, deadline_checks, delay_reads, sleeps,
                 retry_logs>>

\* delay = _backoff.delay
ReadDelay ==
  /\ pc = "delay"
  /\ _backoff' = CalculateNextDelay(_backoff)
  /\ delay' = _backoff'._delay
  /\ delay_reads' = delay_reads + 1
  /\ pc' = "log"
  /\ UNCHANGED apartVars
  /\ UNCHANGED <<cfgVars, now, start_time, retries, last_exception,
                 original_exc, result, elapsed_time_before,
                 elapsed_time_after, calls, op_trace, signals, outcome,
                 retry_cb_calls, success_cb_calls, failure_cb_calls,
                 timeout_checks, deadline_checks, sleeps, retry_logs,
                 error_logs>>

\* a bug: the retry callback is skipped after the diagnostic
LogRetryThenSleep ==
  /\ pc = "log"
  /\ retry_logs' = IF logger THEN retry_logs + 1 ELSE retry_logs
  /\ pc' = "sleep"
  /\ UNCHANGED apartVars
  /\ UNCHANGED <<cfgVars, now, start_time, retries, _backoff, last_exception,
                 original_exc, result, delay, elapsed_time_before,
                 elapsed_time_after, calls, op_trace, signals, outcome,
                 retry_cb_calls, success_cb_calls, failure_cb_calls,
                 timeout_checks, deadline_checks, delay_reads, sleeps,
                 error_logs>>

\* _log_retry(...)
LogRetry ==
  /\ pc = "log"
  /\ retry_logs' = IF logger THEN retry_logs + 1 ELSE retry_logs
  /\ pc' = "retry_callback"
  /\ UNCHANGED apartVars
  /\ UNCHANGED <<cfgVars, now, start_time, retries, _backoff, last_exception,
                 original_exc, result, delay, elapsed_time_before,
                 elapsed_time_after, calls, op_trace, signals, outcome,
                 retry_cb_calls, success_cb_calls, failure_cb_calls,
                 timeout_checks, deadline_checks, delay_reads, sleeps,
                 error_logs>>

\* a bug: the guard of the success callback copied to the retry callback
RetryCallbackAfterFirstRetry ==
  /\ pc = "retry_callback"
  /\ retry_cb_calls' = IF retries > 0 /\ retry_callback
                       THEN retry_cb_calls + 1 ELSE retry_cb_calls
  /\ pc' = "sleep"
  /\ UNCHANGED apartVars
  /\ UNCHANGED <<cfgVars, now, start_time, retries, _backoff, last_exception,
                 original_exc, result, delay, elapsed_time_before,
                 elapsed_time_after, calls, op_trace, signals, outcome,
                 success_cb_calls, failure_cb_calls, timeout_checks,
                 deadline_checks, delay_reads, sleeps, retry_logs,
                 error_logs>>

\* if retry_callback: retry_callback()
RetryCallback ==
  /\ pc = "retry_callback"
  /\ retry_cb_calls' = IF retry_callback THEN retry_cb_calls + 1
                       ELSE retry_cb_calls
  /\ pc' = "sleep"
  /\ UNCHANGED apartVars
  /\ UNCHANGED <<cfgVars, now, start_time, retries, _backoff, last_exception,
                 original_exc, result, delay, elapsed_time_before,
                 elapsed_time_after, calls, op_trace, signals, outcome,
                 success_cb_calls, failure_cb_calls, timeout_checks,
                 deadline_checks, delay_reads, sleeps, retry_logs,
                 error_logs>>

\* a bug: the retry counter is not incremented after the sleep
SleepWithoutIncrement ==
  /\ pc = "sleep"
  /\ sleeps' = sleeps + 1
  /\ now' = IF clock = "real" THEN now + delay ELSE now
  /\ pc' = "precheck"
  /\ UNCHANGED apartVars
  /\ UNCHANGED <<cfgVars, start_time, retries, _backoff, last_exception,
                 original_exc, result, delay, elapsed_time_before,
                 elapsed_time_after, calls, op_trace, signals, outcome,
                 retry_cb_calls, success_cb_calls, failure_cb_calls,
                 timeout_checks, deadline_checks, delay_reads, retry_logs,
                 error_logs>>

\* sleep(delay); retries += 1
Sleep ==
  /\ pc = "sleep"
  /\ sleeps' = sleeps + 1
  /\ now' = IF clock = "real" THEN now + delay ELSE now
  /\ retries' = retries + 1
  /\ pc' = "precheck"
  /\ UNCHANGED apartVars
  /\ UNCHANGED <<cfgVars, start_time, _backoff, last_exception, original_exc,
                 result, delay, elapsed_time_before, elapsed_time_after,
                 calls, op_trace, signals, outcome, retry_cb_calls,
                 success_cb_calls, failure_cb_calls, timeout_checks,
                 deadline_checks, delay_reads, retry_logs, error_logs>>

\* real time passes: before a check, or while the operation runs
Tick ==
  /\ clock = "real"
  /\ pc \in {"precheck", "call"}
  /\ now < MaxTime
  /\ now' = now + 1
  /\ UNCHANGED apartVars
  /\ UNCHANGED <<cfgVars, localVars, seenVars>>

Next ==
  \/ Start
  \/ TimeoutCheck
  \/ Invoke
  \/ DeadlineCheck
  \/ Succeed
  \/ Handle
  \/ ReadDelay
  \/ LogRetry
  \/ RetryCallback
  \/ Sleep
  \/ Tick

Spec == Init /\ [][Next]_vars

\* one wrapper invocation with a logger and all three callbacks configured
SpecAllHooks == InitAllHooks /\ [][Next]_vars

\* one wrapper invocation with max_retries any int that retry accepts
SpecIntegerCaps == InitIntegerCaps /\ [][Next]_vars

\* the wrapper runs on: no step of it blocks for ever, the operation, the
\* callbacks, the logger and sleep all come back
FairSpec == Spec /\ WF_vars(Next)

FairSpecIntegerCaps == SpecIntegerCaps /\ WF_vars(Next)

FairSpecTimeoutOnly == InitTimeoutOnly /\ [][Next]_vars /\ WF_vars(Next)

\* ------------------------------------------------------ backoff strategies
MaxParam == 2     \* a BackOff constructor is given numbers in -1..MaxParam
MaxReads == 3     \* delay is read at most this often on one instance

\* ExponentialBackOff.DEFAULT_BASE
DEFAULT_BASE == 2

Params == -1..MaxParam
OptionalParams == {None} \cup {Some(x) : x \in Params}
JitterChoices == {None} \cup {<<lo, hi>> : lo \in Params, hi \in Params}

BackOffClasses ==
  {"FixedBackOff", "LinearBackOff", "RandomUniformBackOff",
   "ExponentialBackOff"}

\* a constructor that raised instead of returning an instance
Rejected(error) == [cls |-> error]

IsBackOff(o) == o.cls \in BackOffClasses

\* BackOff._validate_base_delay, for a number
ValidBaseDelay(base_delay) == ~(base_delay < 0)

\* BackOff._validate_jitter, for None or a pair of numbers
ValidJitter(jitter) ==
  \/ jitter = None
  \/ /\ ~(jitter[1] < 0 \/ jitter[2] < 0)
     /\ ~(jitter[1] > jitter[2])

\* BackOff._validate_step, for None or a number
ValidStep(step) == step = None \/ ~(step[1] < 0)

\* BackOff._validate_max, for None or a number
ValidMax(max, base_delay) == max = None \/ ~(max[1] < base_delay)

\* FixedBackOff(base_delay, jitter): BackOff.__init__
NewFixedBackOff(base_delay, jitter) ==
  IF ValidBaseDelay(base_delay) /\ ValidJitter(jitter)
  THEN [cls |-> "FixedBackOff", _base_delay |-> base_delay,
        _delay |-> base_delay, _jitter |-> jitter, _round |-> 0]
  ELSE Rejected("ValueError")

\* LinearBackOff(base_delay, step, jitter, max)
NewLinearBackOff(base_delay, step, jitter, max) ==
  IF /\ ValidBaseDelay(base_delay) /\ ValidJitter(jitter)
     /\ ValidStep(step) /\ ValidMax(max, base_delay)
  THEN [cls |-> "LinearBackOff", _base_delay |-> base_delay,
        _delay |-> base_delay, _jitter |-> jitter, _round |-> 0,
        _step |-> (IF step = None THEN base_delay ELSE step[1]),
        _max |-> max]
  ELSE Rejected("ValueError")

\* RandomUniformBackOff(base_delay, min_delay, max_delay)
NewRandomUniformBackOff(base_delay, min_delay, max_delay) ==
  IF ValidBaseDelay(base_delay)
  THEN [cls |-> "RandomUniformBackOff", _base_delay |-> base_delay,
        _delay |-> base_delay, _jitter |-> None, _round |-> 0,
        _min_delay |-> min_delay, _max_delay |-> max_delay]
  ELSE Rejected("ValueError")

\* ExponentialBackOff(base_delay, base, jitter, max)
NewExponentialBackOff(base_delay, base, jitter, max) ==
  IF /\ ValidBaseDelay(base_delay) /\ ValidJitter(jitter)
     /\ ValidMax(max, base_delay)
  THEN [cls |-> "ExponentialBackOff", _base_delay |-> base_delay,
        _delay |-> base_delay, _jitter |-> jitter, _round |-> 0,
        _base |-> (IF base = None THEN DEFAULT_BASE ELSE base[1]),
        _max |-> max]
  ELSE Rejected("ValueError")

\* what the four constructors give for every choice of arguments
Constructions ==
  {NewFixedBackOff(bd, j) : bd \in Params, j \in JitterChoices}
  \cup {NewLinearBackOff(bd, st, j, mx) :
          bd \in Params, st \in OptionalParams, j \in JitterChoices,
          mx \in OptionalParams}
  \cup {NewRandomUniformBackOff(bd, lo, hi) :
          bd \in Params, lo \in Params, hi \in Params}
  \cup {NewExponentialBackOff(bd, ba, j, mx) :
          bd \in Params, ba \in OptionalParams, j \in JitterChoices,
          mx \in OptionalParams}

\* random.uniform(a, b): a value between the two, whichever is larger
Uniform(a, b) == IF a <= b THEN a..b ELSE b..a

\* a bug: the round test is dropped, the first delay is jittered too
JittersEveryRound(b) ==
  IF b._jitter # None
  THEN Uniform(b._jitter[1], b._jitter[2]) ELSE {0}

\* the jitter added in this round: none in round 0 or without a range
Jitters(b) ==
  IF b._round > 0 /\ b._jitter # None
  THEN Uniform(b._jitter[1], b._jitter[2]) ELSE {0}

\* min(self._delay, self._max) when a max is set
Capped(d, max) == IF max # None /\ max[1] < d THEN max[1] ELSE d

\* base ** round
RECURSIVE Pow(_, _)
Pow(base, n) == IF n = 0 THEN 1 ELSE base * Pow(base, n - 1)

\* _calculate_next_delay of each class: the instance after the call, one
\* per value the random draw can take
\* a bug: `+=` instead of `=`, the delay accumulates
FixedNextDelayAccumulating(b) ==
  { [b EXCEPT !._delay = b._delay + b._base_delay + j,
              !._round = b._round + 1] : j \in Jitters(b) }

FixedNextDelay(b) ==
  { [b EXCEPT !._delay = b._base_delay + j, !._round = b._round + 1] :
      j \in Jitters(b) }

\* a bug: the cap is applied before the jitter is added
LinearNextDelayCapFirst(b) ==
  { [b EXCEPT
       !._delay = Capped(b._base_delay + b._step * b._round, b._max) + j,
       !._round = b._round + 1] : j \in Jitters(b) }

LinearNextDelay(b) ==
  { [b EXCEPT
       !._delay = Capped(b._base_delay + b._step * b._round + j, b._max),
       !._round = b._round + 1] : j \in Jitters(b) }

\* a bug: the round is advanced inside the `if`, so never from round 0
RandomUniformNextDelayRoundInside(b) ==
  IF b._round > 0
  THEN { [b EXCEPT !._delay = d, !._round = b._round + 1] :
           d \in Uniform(b._min_delay, b._max_delay) }
  ELSE { b }

RandomUniformNextDelay(b) ==
  IF b._round > 0
  THEN { [b EXCEPT !._delay = d, !._round = b._round + 1] :
           d \in Uniform(b._min_delay, b._max_delay) }
  ELSE { [b EXCEPT !._round = b._round + 1] }

\* a bug: the exponent is one ahead of the round
ExponentialNextDelayNextRound(b) ==
  { [b EXCEPT
       !._delay =
         Capped(b._base_delay * Pow(b._base, b._round + 1) + j, b._max),
       !._round = b._round + 1] : j \in Jitters(b) }

ExponentialNextDelay(b) ==
  { [b EXCEPT
       !._delay =
         Capped(b._base_delay * Pow(b._base, b._round) + j, b._max),
       !._round = b._round + 1] : j \in Jitters(b) }

\* BackOff.delay: the instance after _calculate_next_delay; the value
\* returned is its _delay
DelayProperty(b) ==
  CASE b.cls = "FixedBackOff" -> FixedNextDelay(b)
    [] b.cls = "LinearBackOff" -> LinearNextDelay(b)
    [] b.cls = "RandomUniformBackOff" -> RandomUniformNextDelay(b)
    [] b.cls = "ExponentialBackOff" -> ExponentialNextDelay(b)

\* BackOff.reset
Reset(b) == [b EXCEPT !._round = 0]

\* ------------------------------------------- a BackOff instance used alone
\* no wrapper invocation is under way: the defaults of retry(), idle locals
NoWrapper ==
  /\ exceptions = {"Exception"}
  /\ excluded_exceptions = {}
  /\ max_retries = None
  /\ timeout = None
  /\ deadline = None
  /\ reraise_exception = FALSE
  /\ logger = TRUE
  /\ failure_callback = FALSE
  /\ retry_callback = FALSE
  /\ successful_retry_callback = FALSE
  /\ clock = "real"
  /\ now = 0
  /\ pc = "start"
  /\ start_time = 0
  /\ retries = 0
  /\ last_exception = NoExc
  /\ original_exc = NoExc
  /\ result = 0
  /\ delay = 0
  /\ elapsed_time_before = None
  /\ elapsed_time_after = None
  /\ calls = 0
  /\ op_trace = <<>>
  /\ timeout_checks = 0
  /\ deadline_checks = 0
  /\ outcome = NoOutcome
  /\ retry_cb_calls = 0
  /\ success_cb_calls = 0
  /\ failure_cb_calls = 0
  /\ delay_reads = 0
  /\ sleeps = 0
  /\ retry_logs = 0
  /\ error_logs = 0
  /\ signals = <<>>

wrapperVars == <<cfgVars, now, localVars, seenVars>>

\* an instance right after its constructor returned or raised
InitBackOff ==
  /\ NoWrapper
  /\ backoff = FixedBackOff(0)
  /\ _backoff = backoff
  /\ invocations = <<>>
  /\ strategy \in Constructions
  /\ read_values = <<>>
  /\ reads_since_reset = 0
  /\ wrapping = NoRetryCall
  /\ adapter = NoAdapter

\* value = strategy.delay
StrategyDelay ==
  /\ IsBackOff(strategy)
  /\ Len(read_values) < MaxReads
  /\ strategy' \in DelayProperty(strategy)
  /\ read_values' = Append(read_values, strategy'._delay)
  /\ reads_since_reset' = reads_since_reset + 1
  /\ UNCHANGED <<wrapperVars, invocations, wrapping, adapter>>

\* strategy.reset()
StrategyReset ==
  /\ IsBackOff(strategy)
  /\ strategy' = Reset(strategy)
  /\ reads_since_reset' = 0
  /\ UNCHANGED <<wrapperVars, invocations, read_values, wrapping,
                 adapter>>

NextBackOff ==
  \/ StrategyDelay
  \/ StrategyReset

SpecBackOff == InitBackOff /\ [][NextBackOff]_vars

\* ------------------------- several invocations of one wrapped function
NInvocations == 2   \* the wrapped function is invoked this often

Invocations == 1..NInvocations

\* an invocation that has not entered the wrapper
Idle == [pc |-> "idle", _backoff |-> NoStrategy, retries |-> 0,
         delays |-> <<>>]

\* the instances given as retry(backoff=...): the default, and one of each
\* class as in the examples
FreshInstances ==
  { NewFixedBackOff(0, None),
    NewFixedBackOff(1, <<0, 1>>),
    NewLinearBackOff(1, Some(1), None, None),
    NewRandomUniformBackOff(0, 1, 2),
    NewExponentialBackOff(1, None, None, None) }

\* the caller may have read delay on the instance before wrapping
WrapInstances ==
  LET once == UNION {DelayProperty(b) : b \in FreshInstances}
  IN FreshInstances \cup once \cup UNION {DelayProperty(b) : b \in once}

InitCalls ==
  /\ NoWrapper
  /\ backoff \in WrapInstances
  /\ _backoff = backoff
  /\ invocations = [i \in Invocations |-> Idle]
  /\ strategy = NoStrategy
  /\ read_values = <<>>
  /\ reads_since_reset = 0
  /\ wrapping = NoRetryCall
  /\ adapter = NoAdapter

callsFrame == <<exceptions, excluded_exceptions, max_retries, timeout,
                deadline, reraise_exception, logger, failure_callback,
                retry_callback, successful_retry_callback, clock, now,
                localVars, seenVars, strategy, read_values,
                reads_since_reset, wrapping, adapter>>

\* wrapper entry: _backoff = deepcopy(backoff); _backoff.reset()
CallStart(i) ==
  /\ invocations[i].pc = "idle"
  /\ invocations' =
       [invocations EXCEPT ![i] = [pc |-> "running",
                                   _backoff |-> Reset(backoff),
                                   retries |-> 0,
                                   delays |-> <<>>]]
  /\ UNCHANGED <<backoff, callsFrame>>

\* a bug: line 136 reads the delay of the shared instance
CallRetryOnShared(i) ==
  /\ invocations[i].pc = "running"
  /\ invocations[i].retries < MaxReads
  /\ backoff' \in DelayProperty(backoff)
  /\ invocations' =
       [invocations EXCEPT
          ![i]._backoff = backoff',
          ![i].delays = Append(@, backoff'._delay),
          ![i].retries = @ + 1]
  /\ UNCHANGED callsFrame

\* an attempt failed and is retried: delay = _backoff.delay; retries += 1
CallRetry(i) ==
  /\ invocations[i].pc = "running"
  /\ invocations[i].retries < MaxReads
  /\ \E b \in DelayProperty(invocations[i]._backoff) :
       invocations' =
         [invocations EXCEPT
            ![i]._backoff = b,
            ![i].delays = Append(@, b._delay),
            ![i].retries = @ + 1]
  /\ UNCHANGED <<backoff, callsFrame>>

\* the invocation returns or raises
CallEnd(i) ==
  /\ invocations[i].pc = "running"
  /\ invocations' = [invocations EXCEPT ![i].pc = "done"]
  /\ UNCHANGED <<backoff, callsFrame>>

\* invocations from different threads, interleaved in any way
NextCalls ==
  \E i \in Invocations :
    \/ CallStart(i)
    \/ CallRetry(i)
    \/ CallEnd(i)

SpecCalls == InitCalls /\ [][NextCalls]_vars

\* wrapper entry while no other invocation is under way
CallStartAlone(i) ==
  /\ \A k \in Invocations : invocations[k].pc # "running"
  /\ CallStart(i)

\* one invocation after the other
NextSequential ==
  \E i \in Invocations :
    \/ CallStartAlone(i)
    \/ CallRetry(i)
    \/ CallEnd(i)

SpecSequential == InitCalls /\ [][NextSequential]_vars

\* --------------------------------------------- retry(...) at wrap time
MaxGiven == 2   \* a call of retry(...) passes at most this many arguments

\* isinstance(value, types); bool is a subclass of int, and an int is
\* an int whatever its sign
IsInstanceOf(value, types) ==
  \/ value \in types
  \/ value \in {"bool", "zero", "negative_int"} /\ "int" \in types

\* isinstance(value, tuple)
IsTuple(value) ==
  value \in {"tuple_of_exceptions", "tuple_with_non_exception"}

\* `for exc in value: issubclass(exc, Exception)` runs through: the value
\* is iterable and each item is a subclass of Exception (iterating a
\* non-iterable, and issubclass of a non-class, raise TypeError too)
ItemsAreExceptions(value) ==
  value \in {"tuple_of_exceptions", "list_of_exceptions"}

\* callable(value)
Callable(value) == value = "function"

TypeError == Some("TypeError")

\* a bug: the check of backoff is missing
_validate_args_without_backoff(a) ==
  IF \/ ~IsTuple(a.exceptions)
     \/ ~ItemsAreExceptions(a.exceptions)
     \/ ~ItemsAreExceptions(a.excluded_exceptions)
     \/ a.max_retries # "None" /\ ~IsInstanceOf(a.max_retries, {"int"})
     \/ a.timeout # "None" /\ ~IsInstanceOf(a.timeout, {"int", "float"})
     \/ a.deadline # "None" /\ ~IsInstanceOf(a.deadline, {"int", "float"})
     \/ a.logger # "None" /\ ~IsInstanceOf(a.logger, {"Logger"})
     \/ ~IsInstanceOf(a.log_retry_traceback, {"bool"})
     \/ a.failure_callback # "None" /\ ~Callable(a.failure_callback)
     \/ a.retry_callback # "None" /\ ~Callable(a.retry_callback)
     \/ /\ a.successful_retry_callback # "None"
        /\ ~Callable(a.successful_retry_callback)
     \/ ~IsInstanceOf(a.reraise_exception, {"bool"})
  THEN TypeError ELSE None

\* _validate_args: the exception it raises, None when it returns; every
\* failing check raises TypeError, so their order is not observable
_validate_args(a) ==
  IF \/ ~IsTuple(a.exceptions)
     \/ ~ItemsAreExceptions(a.exceptions)
     \/ ~ItemsAreExceptions(a.excluded_exceptions)
     \/ a.max_retries # "None" /\ ~IsInstanceOf(a.max_retries, {"int"})
     \/ ~IsInstanceOf(a.backoff, {"BackOff"})
     \/ a.timeout # "None" /\ ~IsInstanceOf(a.timeout, {"int", "float"})
     \/ a.deadline # "None" /\ ~IsInstanceOf(a.deadline, {"int", "float"})
     \/ a.logger # "None" /\ ~IsInstanceOf(a.logger, {"Logger"})
     \/ ~IsInstanceOf(a.log_retry_traceback, {"bool"})
     \/ a.failure_callback # "None" /\ ~Callable(a.failure_callback)
     \/ a.retry_callback # "None" /\ ~Callable(a.retry_callback)
     \/ /\ a.successful_retry_callback # "None"
        /\ ~Callable(a.successful_retry_callback)
     \/ ~IsInstanceOf(a.reraise_exception, {"bool"})
  THEN TypeError ELSE None

\* the calls retry(...) that pass at most n arguments, the other
\* parameters at their defaults
RECURSIVE CallsGiving(_)
CallsGiving(n) ==
  IF n = 0 THEN {DefaultArgs}
  ELSE LET fewer == CallsGiving(n - 1)
       IN fewer \cup { [a EXCEPT ![p] = v] :
                         a \in fewer, p \in Parameters,
                         v \in ArgumentKinds }

\* retry(...) has been called with at most MaxGiven arguments and is
\* about to run
InitWrap ==
  /\ NoWrapper
  /\ backoff = FixedBackOff(0)
  /\ _backoff = backoff
  /\ invocations = <<>>
  /\ strategy = NoStrategy
  /\ read_values = <<>>
  /\ reads_since_reset = 0
  /\ adapter = NoAdapter
  /\ \E a \in CallsGiving(MaxGiven - 1), p \in Parameters,
        v \in ArgumentKinds :
       wrapping = [pc |-> "retry", args |-> [a EXCEPT ![p] = v],
                   raised |-> None, f_calls |-> 0]

wrapFrame == <<wrapperVars, invocations, strategy, read_values,
               reads_since_reset, adapter>>

\* retry(...): validates all twelve arguments, then either raises or
\* returns the decorator wrapped_func
retry ==
  /\ wrapping.pc = "retry"
  /\ LET error == _validate_args(wrapping.args)
     IN wrapping' =
          IF error # None
          THEN [wrapping EXCEPT !.pc = "raised", !.raised = error]
          ELSE [wrapping EXCEPT !.pc = "wrapped_func"]
  /\ UNCHANGED wrapFrame

\* a bug: decorating calls the operation once
wrapped_func_calling_f ==
  /\ wrapping.pc = "wrapped_func"
  /\ wrapping' = [wrapping EXCEPT !.pc = "wrapper",
                                   !.f_calls = wrapping.f_calls + 1]
  /\ UNCHANGED wrapFrame

\* wrapped_func(f): defines the wrapper around f and returns it
wrapped_func ==
  /\ wrapping.pc = "wrapped_func"
  /\ wrapping' = [wrapping EXCEPT !.pc = "wrapper"]
  /\ UNCHANGED wrapFrame

\* the wrapper is called and calls the operation
wrapper ==
  /\ wrapping.pc = "wrapper"
  /\ wrapping.f_calls < MaxCalls
  /\ wrapping' = [wrapping EXCEPT !.f_calls = wrapping.f_calls + 1]
  /\ UNCHANGED wrapFrame

NextWrap ==
  \/ retry
  \/ wrapped_func
  \/ wrapper

SpecWrap == InitWrap /\ [][NextWrap]_vars

\* ------------------------------------------------- callback adapters
MaxArgValue == 1       \* arguments bound or overridden are 0..MaxArgValue
MaxCallbackCalls == 2  \* an adapter is called at most this often

\* inspect.getfullargspec(func).args of the wrapped function
func_args == <<"x", "y", "z">>

ArgValues == 0..MaxArgValue

\* the keyword dicts over the function's parameters
KwargDicts ==
  UNION { [d -> ArgValues] :
            d \in SUBSET {func_args[i] : i \in 1..Len(func_args)} }

\* the positional argument lists the function can take
ArgLists == UNION { [1..n -> ArgValues] : n \in 0..Len(func_args) }

\* {**a, **b}, and a after a.update(b)
Updated(a, b) ==
  [k \in DOMAIN a \cup DOMAIN b |-> IF k \in DOMAIN b THEN b[k] ELSE a[k]]

\* {func_args[i]: a for i, a in enumerate(args)}
Positional(args) ==
  [k \in {func_args[i] : i \in 1..Len(args)} |->
     args[CHOOSE i \in 1..Len(args) : func_args[i] = k]]

\* CallbackFactory(func, *args, **kwargs) and
\* callback_factory(func, *args, **kwargs) for a callable func
NewAdapter(kind, args, kwargs) ==
  LET stored == IF Len(args) > 0
                THEN Updated(kwargs, Positional(args)) ELSE kwargs
  IN [kind |-> kind, kwargs |-> stored, bound |-> stored, calls |-> 0,
      override_kwargs |-> EmptyDict, runtime_kwargs |-> EmptyDict,
      overridden |-> FALSE]

InitCallback ==
  /\ NoWrapper
  /\ backoff = FixedBackOff(0)
  /\ _backoff = backoff
  /\ invocations = <<>>
  /\ strategy = NoStrategy
  /\ read_values = <<>>
  /\ reads_since_reset = 0
  /\ wrapping = NoRetryCall
  /\ \E kind \in {"CallbackFactory", "callback_factory"},
        args \in ArgLists, kwargs \in KwargDicts :
       adapter = NewAdapter(kind, args, kwargs)

callbackFrame == <<wrapperVars, invocations, strategy, read_values,
                   reads_since_reset, wrapping>>

\* func(**runtime_kwargs) is called; the adapter notes what it was given
\* and whether an earlier call had overrides
Called(a, override_kwargs, runtime_kwargs) ==
  [a EXCEPT !.calls = a.calls + 1,
            !.overridden = a.overridden \/ a.override_kwargs # EmptyDict,
            !.override_kwargs = override_kwargs,
            !.runtime_kwargs = runtime_kwargs]

\* a bug: the overrides are merged into the stored dict
CallUpdatingKwargs(override_kwargs) ==
  /\ adapter.kind = "CallbackFactory"
  /\ adapter.calls < MaxCallbackCalls
  /\ LET runtime_kwargs == Updated(adapter.kwargs, override_kwargs)
     IN adapter' = [Called(adapter, override_kwargs, runtime_kwargs)
                      EXCEPT !.kwargs = runtime_kwargs]
  /\ UNCHANGED callbackFrame

\* CallbackFactory.__call__(**override_kwargs)
Call(override_kwargs) ==
  /\ adapter.kind = "CallbackFactory"
  /\ adapter.calls < MaxCallbackCalls
  /\ LET runtime_kwargs == Updated(adapter.kwargs, override_kwargs)
     IN adapter' = Called(adapter, override_kwargs, runtime_kwargs)
  /\ UNCHANGED callbackFrame

\* the wrapped_func(**override_kwargs) that callback_factory returns
CallWrappedFunc(override_kwargs) ==
  /\ adapter.kind = "callback_factory"
  /\ adapter.calls < MaxCallbackCalls
  /\ LET runtime_kwargs == Updated(adapter.kwargs, override_kwargs)
     IN adapter' = Called(adapter, override_kwargs, runtime_kwargs)
  /\ UNCHANGED callbackFrame

NextCallback ==
  \/ \E override_kwargs \in KwargDicts : Call(override_kwargs)
  \/ \E override_kwargs \in KwargDicts : CallWrappedFunc(override_kwargs)

SpecCallback == InitCallback /\ [][NextCallback]_vars

\* ================================================================ claims
\* an error kind the wrapper retries: covered by `exceptions`, not excluded
RetryableKind(kind) ==
  /\ kind \in OpErrorKinds
  /\ \E c \in exceptions : IsSubclass(kind, c)
  /\ ~\E c \in excluded_exceptions : IsSubclass(kind, c)

\* every invocation of the operation so far raised a retryable error
AlwaysFailing == \A i \in 1..Len(op_trace) : RetryableKind(op_trace[i])

\* the operation so far behaves as one that raises a retryable error on its
\* first k invocations and then returns
FailsThenSucceeds(k) ==
  /\ Len(op_trace) <= k + 1
  /\ \A i \in 1..Len(op_trace) :
       IF i <= k THEN RetryableKind(op_trace[i]) ELSE op_trace[i] = "return"

\* C1: an operation that raises a retryable error on its first k invocations
\* and then returns, wrapped with max_retries = k and neither timeout nor
\* deadline: when the wrapper ends it has returned the value of invocation
\* k+1 and the operation was invoked exactly k+1 times.
C1_FailKTimesThenSucceed ==
  ( /\ pc = "done"
    /\ timeout = None /\ deadline = None /\ max_retries # None
    /\ FailsThenSucceeds(max_retries[1]) )
  => /\ outcome = Returned(max_retries[1] + 1)
     /\ calls = max_retries[1] + 1

C1_Witness ==
  /\ pc = "done"
  /\ timeout = None /\ deadline = None /\ max_retries = Some(2)
  /\ FailsThenSucceeds(2)
  /\ calls = 3
  /\ outcome = Returned(3)

\* C2: an operation that always raises a retryable error, wrapped with
\* max_retries = n, reraise_exception = False and neither timeout nor
\* deadline: the wrapper ends by raising MaxRetriesException after exactly
\* n+1 invocations.
C2_AlwaysFailingRaisesMaxRetries ==
  ( /\ pc = "done"
    /\ timeout = None /\ deadline = None /\ max_retries # None
    /\ ~reraise_exception
    /\ AlwaysFailing )
  => /\ outcome = Raised(Signal("MaxRetriesException"))
     /\ calls = max_retries[1] + 1

C2_Witness ==
  /\ pc = "done"
  /\ timeout = None /\ deadline = None /\ max_retries = Some(2)
  /\ ~reraise_exception
  /\ AlwaysFailing
  /\ calls = 3
  /\ outcome = Raised(Signal("MaxRetriesException"))

\* C3: with reraise_exception = True, max_retries = n and no timeout, an
\* operation that always raises a retryable error makes the wrapper raise,
\* after exactly n+1 invocations, the error raised by invocation n+1 (the
\* last one), and no MaxRetriesException is constructed.
C3_ReraiseLastUnderlyingError ==
  ( /\ pc = "done"
    /\ timeout = None /\ max_retries # None
    /\ reraise_exception
    /\ AlwaysFailing )
  => /\ calls = max_retries[1] + 1
     /\ outcome = Raised(OpError(op_trace[calls], calls))
     /\ signals = <<>>

\* the attempts raise different errors and the last one is surfaced
C3_Witness ==
  /\ pc = "done"
  /\ timeout = None /\ max_retries = Some(2)
  /\ reraise_exception
  /\ op_trace = <<"TypeError", "TypeError", "ValueError">>
  /\ outcome = Raised(OpError("ValueError", 3))

\* the terminal outcome is decided: the wrapper has returned or raised, or a
\* terminal signal has been constructed
Decided == outcome # NoOutcome \/ signals # <<>>

\* C4: a wrapper invocation has ended exactly when it has returned a value
\* or raised one exception; a returned value and a terminal signal never
\* occur together and at most one signal is constructed; once the outcome
\* is decided the operation is not invoked again, no callback is called, no
\* delay is read, nothing sleeps and the outcome does not change.
C4_ExactlyOnceTerminal ==
  /\ []( /\ (pc = "done") = (outcome.type \in {"return", "raise"})
         /\ (outcome.type = "return") =>
              (outcome.exc = NoExc /\ signals = <<>>)
         /\ (outcome.type = "raise") => (outcome.exc # NoExc)
         /\ Len(signals) <= 1 )
  /\ [][ Decided =>
           /\ calls' = calls
           /\ retry_cb_calls' = retry_cb_calls
           /\ success_cb_calls' = success_cb_calls
           /\ failure_cb_calls' = failure_cb_calls
           /\ delay_reads' = delay_reads
           /\ sleeps' = sleeps
           /\ signals' = signals
           /\ (outcome # NoOutcome => outcome' = outcome) ]_vars

\* a timeout signal was caught by the except clause after a retry and left
\* the wrapper
C4_Witness ==
  /\ pc = "done"
  /\ exceptions = {"Exception"}
  /\ signals = <<"RetriesTimeoutException">>
  /\ outcome = Raised(Signal("RetriesTimeoutException"))
  /\ calls = 2
  /\ max_retries = None

LastRaised(kind) ==
  /\ op_trace # <<>>
  /\ op_trace[Len(op_trace)] = kind

C7_NonRetryablePropagatesAtOnce ==
  \A kind \in OpErrorKinds :
    ( /\ LastRaised(kind)
      /\ ~\E c \in exceptions : IsSubclass(kind, c) )
    => /\ pc = "done"
       /\ calls = Len(op_trace)
       /\ outcome = Raised(OpError(kind, calls))
       /\ delay_reads = calls - 1
       /\ sleeps = calls - 1
       /\ retries = calls - 1
       /\ retry_cb_calls = (IF retry_callback THEN calls - 1 ELSE 0)
       /\ success_cb_calls = 0
       /\ failure_cb_calls = 0
       /\ signals = <<>>

C7_Witness ==
  /\ pc = "done"
  /\ exceptions = {"ValueError"}
  /\ excluded_exceptions = {}
  /\ retry_callback /\ failure_callback
  /\ op_trace = <<"ValueError", "TypeError">>
  /\ outcome = Raised(OpError("TypeError", 2))
  /\ retry_cb_calls = 1

\* C8: timeout = 2, no max_retries, an operation that always raises a
\* retryable error and the mocked clock, which advances by 1 on every read
\* (one read per attempt cycle): the wrapper ends after exactly 2
\* invocations of the operation, and with the default reraise_exception =
\* False what it raises is RetriesTimeoutException.
C8_TimeoutAfterTwoInvocations ==
  ( /\ pc = "done"
    /\ clock = "mocked"
    /\ timeout = Some(2) /\ max_retries = None
    /\ AlwaysFailing )
  => /\ calls = 2
     /\ signals = <<"RetriesTimeoutException">>
     /\ ~reraise_exception =>
          outcome = Raised(Signal("RetriesTimeoutException"))

C8_Witness ==
  /\ pc = "done"
  /\ clock = "mocked"
  /\ timeout = Some(2) /\ max_retries = None /\ deadline = None
  /\ ~reraise_exception
  /\ op_trace = <<"ValueError", "ValueError">>
  /\ elapsed_time_before = Some(3)
  /\ outcome = Raised(Signal("RetriesTimeoutException"))

\* the deadline check of this invocation measured more than the deadline
DeadlineOverrun ==
  /\ Truthy(deadline)
  /\ elapsed_time_after # None
  /\ elapsed_time_after[1] > deadline[1]

\* the except clause takes the wrapper's own deadline signal
DeadlineSignalCaught ==
  \E c \in exceptions : IsSubclass("RetriesDeadlineException", c)

\* C9 as stated: whenever the deadline check after a normal return measures
\* more than the deadline, the wrapper raises RetriesDeadlineException, the
\* result is not returned and successful_retry_callback is not called.
C9_AsStated ==
  (DeadlineOverrun /\ pc = "done")
  => /\ outcome = Raised(Signal("RetriesDeadlineException"))
     /\ success_cb_calls = 0

\* C9 (amended): whenever the deadline check after a normal return measures
\* more than the deadline, RetriesDeadlineException is constructed, the
\* result is never returned and successful_retry_callback is not called;
\* the wrapper raises RetriesDeadlineException, except that with
\* reraise_exception = True, `exceptions` covering the signal and an earlier
\* attempt having raised a retryable error it raises that last underlying
\* error instead.
C9_DeadlineDiscardsResult ==
  DeadlineOverrun
  => /\ pc \in {"except", "done"}
     /\ op_trace[Len(op_trace)] = "return"
     /\ signals = <<"RetriesDeadlineException">>
     /\ outcome.type # "return"
     /\ success_cb_calls = 0
     /\ pc = "done" =>
          outcome = Raised(
            IF reraise_exception /\ calls > 1 /\ DeadlineSignalCaught
            THEN OpError(op_trace[calls - 1], calls - 1)
            ELSE Signal("RetriesDeadlineException"))

\* a retry succeeded too late: the result is dropped, the callback given
\* for successful retries is not called
C9_Witness ==
  /\ pc = "done"
  /\ deadline = Some(2)
  /\ successful_retry_callback
  /\ ~reraise_exception
  /\ op_trace = <<"ValueError", "return">>
  /\ elapsed_time_after = Some(3)
  /\ outcome = Raised(Signal("RetriesDeadlineException"))
  /\ success_cb_calls = 0

\* C10: the operation is only ever invoked right after a timeout check of
\* the same iteration that measured no more than the timeout (one check per
\* attempt when a timeout is configured); the deadline is only evaluated
\* after an attempt that returned, so as long as the last attempt raised no
\* deadline check has run and no RetriesDeadlineException exists, however
\* much time has passed.
C10_CheckPlacement ==
  /\ [][ (calls' = calls + 1 /\ Truthy(timeout)) =>
           /\ timeout_checks = calls + 1
           /\ elapsed_time_before # None
           /\ elapsed_time_before[1] <= timeout[1] ]_vars
  /\ []( (op_trace = <<>> \/ op_trace[Len(op_trace)] # "return") =>
           /\ deadline_checks = 0
           /\ elapsed_time_after = None
           /\ \A i \in 1..Len(signals) :
                signals[i] # "RetriesDeadlineException" )
  /\ []( deadline_checks <= 1 )

\* a failed attempt ran past the deadline without a deadline signal, and
\* the next attempt is about to run after a timeout check that passed
C10_Witness ==
  /\ pc = "call"
  /\ clock = "real"
  /\ deadline = Some(1) /\ timeout = Some(2)
  /\ op_trace = <<"ValueError">>
  /\ now - start_time = 2
  /\ elapsed_time_before = Some(2)
  /\ timeout_checks = 2
  /\ signals = <<>>

\* a RetriesTimeoutException or RetriesDeadlineException has been raised
TimeoutOrDeadlineRaised ==
  \E i \in 1..Len(signals) :
    signals[i] \in {"RetriesTimeoutException", "RetriesDeadlineException"}

\* C11: once RetriesTimeoutException or RetriesDeadlineException has been
\* raised the wrapper is in its except clause or has ended, and from then on
\* the operation is not invoked, no delay is read, nothing sleeps, the retry
\* counter does not move and retry_callback is not called -- for every
\* `exceptions` tuple (the default (Exception,) catches the signal) and for
\* max_retries = None.
C11_SignalsNeverRetried ==
  /\ []( TimeoutOrDeadlineRaised => pc \in {"except", "done"} )
  /\ [][ TimeoutOrDeadlineRaised =>
           /\ calls' = calls
           /\ delay_reads' = delay_reads
           /\ sleeps' = sleeps
           /\ retries' = retries
           /\ retry_cb_calls' = retry_cb_calls
           /\ _backoff' = _backoff
           /\ pc' \in {"except", "done"} ]_vars

\* the default `exceptions` caught a deadline signal, retries are unbounded,
\* and the wrapper still ended with the signal
C11_Witness ==
  /\ pc = "done"
  /\ exceptions = {"Exception"}
  /\ max_retries = None
  /\ retry_callback
  /\ ~reraise_exception
  /\ op_trace = <<"ValueError", "return">>
  /\ signals = <<"RetriesDeadlineException">>
  /\ outcome = Raised(Signal("RetriesDeadlineException"))
  /\ retry_cb_calls = 1
  /\ sleeps = 1

\* C12: with a successful_retry_callback configured, the callback has been
\* called exactly once when the wrapper has returned a value after at least
\* one retry (more than one invocation of the operation), and zero times in
\* every other state: while the wrapper runs, after a first-attempt success
\* and after any invocation that ended by raising.
C12_SuccessCallbackOnceAfterRetry ==
  successful_retry_callback =>
    success_cb_calls =
      (IF pc = "done" /\ outcome.type = "return" /\ calls > 1 THEN 1 ELSE 0)

\* two failed attempts, then a success: one call of the callback
C12_Witness ==
  /\ pc = "done"
  /\ successful_retry_callback
  /\ op_trace = <<"ValueError", "ValueError", "return">>
  /\ outcome = Returned(3)
  /\ success_cb_calls = 1

\* the invocations of the operation after the first one
Reinvocations == IF calls > 0 THEN calls - 1 ELSE 0

\* a RetriesTimeoutException has been raised
TimeoutRaised ==
  \E i \in 1..Len(signals) : signals[i] = "RetriesTimeoutException"

\* C13 as stated: in every terminated wrapper invocation the number of
\* retry_callback calls equals the number of re-invocations of the operation
\* (invocations minus one).
C13_AsStated ==
  (pc = "done" /\ retry_callback) => retry_cb_calls = Reinvocations

\* C13 (amended): retry_callback is invoked once per retry the wrapper
\* schedules: at every moment the number of calls is the retry counter (one
\* ahead of it between the callback and the end of the sleep), and in every
\* terminated invocation it equals the number of sleeps.  That number is
\* the number of re-invocations of the operation (invocations minus one), so
\* no call is made for the final success or the final max-retries or
\* deadline failure -- except when the timeout check ended the invocation:
\* then the retry announced last never ran and the number of calls equals
\* the number of invocations.
C13_RetryCallbackOncePerRetry ==
  retry_callback =>
    /\ retry_cb_calls = (IF pc = "sleep" THEN retries + 1 ELSE retries)
    /\ pc = "done" =>
         /\ retry_cb_calls = sleeps
         /\ retry_cb_calls =
              (IF TimeoutRaised THEN calls ELSE Reinvocations)

\* three failing attempts under max_retries = 2: a callback after the first
\* and after the second, none after the third
C13_Witness ==
  /\ pc = "done"
  /\ retry_callback
  /\ max_retries = Some(2)
  /\ op_trace = <<"ValueError", "ValueError", "ValueError">>
  /\ signals = <<"MaxRetriesException">>
  /\ retry_cb_calls = 2

\* the classes of the terminal failure signals
TerminalSignalKinds ==
  {"MaxRetriesException", "RetriesTimeoutException",
   "RetriesDeadlineException"}

\* the wrapper ended by raising one of its terminal failure signals
EndedWithSignal ==
  /\ pc = "done"
  /\ outcome.type = "raise"
  /\ outcome.exc.kind \in TerminalSignalKinds

\* C14: with a failure_callback configured, the callback has been called
\* exactly once in every wrapper invocation that ended with
\* MaxRetriesException, RetriesTimeoutException or RetriesDeadlineException,
\* and zero times in an invocation that returned a value.
C14_FailureCallbackOncePerSignal ==
  failure_callback =>
    /\ EndedWithSignal => failure_cb_calls = 1
    /\ (pc = "done" /\ outcome.type = "return") => failure_cb_calls = 0

\* a retried operation ran out of time: one signal, one callback
C14_Witness ==
  /\ failure_callback
  /\ EndedWithSignal
  /\ outcome = Raised(Signal("RetriesTimeoutException"))
  /\ op_trace = <<"TypeError">>
  /\ sleeps = 1
  /\ failure_cb_calls = 1

\* the wrapper ended in failure on the attempt that exhausted max_retries
EndedExhausted ==
  /\ pc = "done"
  /\ outcome.type = "raise"
  /\ max_retries # None
  /\ retries = max_retries[1]
  /\ calls = retries + 1
  /\ RetryableKind(op_trace[calls])

\* C15: with a failure_callback configured, the callback has been called in
\* every wrapper invocation that ended in failure after exhausting
\* max_retries, with reraise_exception False (MaxRetriesException raised)
\* and with reraise_exception True (the last underlying error raised).
C15_FailureCallbackOnExhaustion ==
  (failure_callback /\ EndedExhausted) => failure_cb_calls >= 1

\* the attempts so far that raised an error
FailedAttempts == {i \in 1..Len(op_trace) : op_trace[i] # "return"}

\* the error of the latest attempt that raised
LastUnderlyingError ==
  LET i == CHOOSE j \in FailedAttempts : \A k \in FailedAttempts : k <= j
  IN OpError(op_trace[i], i)

\* C16: with reraise_exception = True, when the timeout or the deadline has
\* fired and the wrapper has ended, the caller has received the last
\* underlying error if an earlier attempt raised one -- for every
\* `exceptions` tuple, also one that does not cover the signal classes --
\* and the terminal signal itself if no attempt raised.
C16_ReraiseInsteadOfSignal ==
  (pc = "done" /\ reraise_exception /\ TimeoutOrDeadlineRaised)
  => outcome = Raised(IF FailedAttempts # {}
                      THEN LastUnderlyingError
                      ELSE Signal(signals[1]))

\* C17: when the wrapper has ended on the failing attempt at which retries
\* equals max_retries, the delay reads, the rounds of the private backoff,
\* the retry diagnostics, the retry_callback calls and the sleeps are those
\* of the max_retries earlier attempts only: the last failing attempt read
\* no delay, advanced no round, logged no retry, called no retry_callback
\* and did not sleep before the terminal error was raised.
C17_MaxCheckBeforeDelay ==
  EndedExhausted =>
    /\ delay_reads = max_retries[1]
    /\ _backoff._round = max_retries[1]
    /\ sleeps = max_retries[1]
    /\ retry_logs = (IF logger THEN max_retries[1] ELSE 0)
    /\ retry_cb_calls = (IF retry_callback THEN max_retries[1] ELSE 0)

\* max_retries = 1 with the default logger: two failing attempts, one delay
\* read, one diagnostic, one sleep
C17_Witness ==
  /\ EndedExhausted
  /\ max_retries = Some(1)
  /\ logger
  /\ op_trace = <<"ValueError", "TypeError">>
  /\ delay_reads = 1
  /\ _backoff._round = 1
  /\ retry_logs = 1
  /\ sleeps = 1

\* the delays a lone invocation can read in round r from its reset copy of
\* the wrap-time instance b
RoundDelays(b, r) ==
  {n._delay : n \in DelayProperty([Reset(b) EXCEPT !._round = r])}

\* the delays of invocation i are those of rounds 0, 1, 2, ... of its own
\* copy, and its copy is in the round after them
ReadsOwnRounds(i) ==
  LET inv == invocations[i]
  IN inv.pc # "idle" =>
       /\ inv._backoff._round = Len(inv.delays)
       /\ inv.retries = Len(inv.delays)
       /\ \A j \in 1..Len(inv.delays) :
            inv.delays[j] \in RoundDelays(backoff, j - 1)

\* C18: under every interleaving of the invocations of one wrapped
\* function, each invocation's sequence of delays is one it can obtain
\* running alone (rounds 0, 1, 2, ... of its own copy), and a delay read of
\* one invocation changes neither the round and stored delay of another
\* invocation's copy nor those of the shared instance.
C18_ConcurrentCallsIsolated ==
  /\ []( \A i \in Invocations : ReadsOwnRounds(i) )
  /\ [][ \A i \in Invocations :
           invocations'[i].retries # invocations[i].retries =>
             /\ backoff' = backoff
             /\ \A k \in Invocations \ {i} :
                  invocations'[k] = invocations[k] ]_vars

\* two invocations of a function wrapped with a linear backoff ran
\* interleaved and each read the delays of rounds 0 and 1
C18_Witness ==
  /\ backoff = NewLinearBackOff(1, Some(1), None, None)
  /\ invocations[1].pc = "running"
  /\ invocations[2].pc = "running"
  /\ invocations[1].delays = <<1, 2>>
  /\ invocations[2].delays = <<1, 2>>

\* C19: with the invocations of one wrapped function running one after
\* the other, no step of any invocation changes the wrap-time BackOff
\* instance (its round counter and stored delay stay as supplied), and the
\* j-th retry of an invocation reads the round j-1 delay however many
\* retries the invocations before it performed.
C19_SequentialCallsIndependent ==
  /\ [][ backoff' = backoff ]_vars
  /\ []( \A i \in Invocations, k \in Invocations :
            (invocations[k].pc = "done" /\ invocations[i].pc # "idle") =>
              /\ invocations[i]._backoff._round = invocations[i].retries
              /\ \A j \in 1..Len(invocations[i].delays) :
                   invocations[i].delays[j] \in RoundDelays(backoff, j - 1) )

\* the first invocation of a function wrapped with an exponential backoff
\* ended after three retries; the second one starts again from round 0
C19_Witness ==
  /\ backoff = NewExponentialBackOff(1, None, None, None)
  /\ invocations[1].pc = "done"
  /\ invocations[1].delays = <<1, 2, 4>>
  /\ invocations[2].pc = "running"
  /\ invocations[2].delays = <<1>>

\* C20: for every BackOff variant and every set of construction parameters
\* the constructor accepts, every value returned by delay, after any number
\* of reads and resets, is non-negative.
C20_DelayNonNegative ==
  \A i \in 1..Len(read_values) : read_values[i] >= 0

\* a step that reads delay on the instance under direct use
ReadStep == Len(read_values') = Len(read_values) + 1

\* C21: every read of delay advances the round counter of the instance by
\* exactly one, for every class and in every round, so a read never leaves
\* the instance as it was; after m reads since construction or the last
\* reset the round counter is m.
C21_ReadAdvancesRound ==
  /\ []( IsBackOff(strategy) => strategy._round = reads_since_reset )
  /\ [][ ReadStep =>
           /\ strategy'._round = strategy._round + 1
           /\ strategy' # strategy ]_vars

\* a random-uniform instance read once, reset, and read twice more
C21_Witness ==
  /\ strategy.cls = "RandomUniformBackOff"
  /\ Len(read_values) = 3
  /\ reads_since_reset = 2
  /\ strategy._round = 2

\* the delay of round r before jitter and cap, by the class's rule
Formula(b, r) ==
  CASE b.cls = "FixedBackOff" -> b._base_delay
    [] b.cls = "LinearBackOff" -> b._base_delay + b._step * r
    [] b.cls = "ExponentialBackOff" -> b._base_delay * Pow(b._base, r)

\* a cap is configured on the instance
HasCap(b) ==
  b.cls \in {"LinearBackOff", "ExponentialBackOff"} /\ b._max # None

\* C22: for a Fixed, Linear or Exponential instance with a jitter range,
\* the first delay read after construction or after a reset is base_delay
\* exactly (no jitter in round 0), and a later read, in round r, lies in
\* [formula(r) + jitter_low, formula(r) + jitter_high] when no cap is
\* configured.
C22_JitterAfterFirstRound ==
  [][ ( /\ ReadStep
        /\ strategy.cls \in
             {"FixedBackOff", "LinearBackOff", "ExponentialBackOff"}
        /\ strategy._jitter # None )
      => LET r == reads_since_reset
             v == read_values'[Len(read_values')]
         IN IF r = 0
            THEN v = strategy._base_delay
            ELSE ~HasCap(strategy) =>
                   /\ Formula(strategy, r) + strategy._jitter[1] <= v
                   /\ v <= Formula(strategy, r) + strategy._jitter[2] ]_vars

\* an exponential instance with jitter (1, 2): 1 in round 0, then 2 + 2
C22_Witness ==
  /\ strategy.cls = "ExponentialBackOff"
  /\ strategy._base_delay = 1
  /\ strategy._base = 2
  /\ strategy._jitter = <<1, 2>>
  /\ strategy._max = None
  /\ read_values = <<1, 4>>
  /\ reads_since_reset = 2

\* C23: a FixedBackOff without jitter returns base_delay on every read of
\* delay, in every round and across resets.
C23_FixedReturnsBaseDelay ==
  (strategy.cls = "FixedBackOff" /\ strategy._jitter = None)
  => \A i \in 1..Len(read_values) : read_values[i] = strategy._base_delay

C23_Witness ==
  /\ strategy.cls = "FixedBackOff"
  /\ strategy._jitter = None
  /\ strategy._base_delay = 2
  /\ strategy._round = 3
  /\ read_values = <<2, 2, 2>>

\* the values jitter_r can take in round r: a draw from the jitter range
\* after round 0, nothing in round 0 or without a range
JitterDraws(b, r) ==
  IF r > 0 /\ b._jitter # None
  THEN b._jitter[1]..b._jitter[2] ELSE {0}

Min(a, b) == IF a <= b THEN a ELSE b

\* C24: the read of a LinearBackOff in round r returns base_delay + step*r
\* when neither jitter nor cap is configured; with a cap max it returns
\* min(base_delay + step*r + jitter_r, max), the cap applied to the
\* jittered value, and so never more than max.
C24_LinearDelay ==
  [][ (ReadStep /\ strategy.cls = "LinearBackOff")
      => LET r == reads_since_reset
             v == read_values'[Len(read_values')]
             f == strategy._base_delay + strategy._step * r
         IN /\ (strategy._jitter = None /\ strategy._max = None) => v = f
            /\ strategy._max # None =>
                 /\ \E j \in JitterDraws(strategy, r) :
                      v = Min(f + j, strategy._max[1])
                 /\ v <= strategy._max[1] ]_vars

\* base_delay 1, step 1, jitter (1, 2), max 2: the jittered rounds are
\* cut to the cap
C24_Witness ==
  /\ strategy.cls = "LinearBackOff"
  /\ strategy._base_delay = 1
  /\ strategy._step = 1
  /\ strategy._jitter = <<1, 2>>
  /\ strategy._max = Some(2)
  /\ read_values = <<1, 2, 2>>
  /\ reads_since_reset = 3

\* C25: the read of an ExponentialBackOff in round r returns
\* base_delay * base^r when neither jitter nor cap is configured, base
\* being 2 when the constructor was not given one; with a cap max it
\* returns min(base_delay * base^r + jitter_r, max), never more than max.
C25_ExponentialDelay ==
  /\ \A bd \in Params, j \in JitterChoices, mx \in OptionalParams :
       LET b == NewExponentialBackOff(bd, None, j, mx)
       IN IsBackOff(b) => b._base = 2
  /\ [][ (ReadStep /\ strategy.cls = "ExponentialBackOff")
         => LET r == reads_since_reset
                v == read_values'[Len(read_values')]
                f == strategy._base_delay * Pow(strategy._base, r)
            IN /\ (strategy._jitter = None /\ strategy._max = None)
                    => v = f
               /\ strategy._max # None =>
                    /\ \E j \in JitterDraws(strategy, r) :
                         v = Min(f + j, strategy._max[1])
                    /\ v <= strategy._max[1] ]_vars

\* base_delay 1 and base 2 without jitter or cap: 1, 2, 4
C25_Witness ==
  /\ strategy.cls = "ExponentialBackOff"
  /\ strategy._base_delay = 1
  /\ strategy._base = 2
  /\ strategy._jitter = None
  /\ strategy._max = None
  /\ read_values = <<1, 2, 4>>
  /\ reads_since_reset = 3

\* C26: on a fresh RandomUniformBackOff (no reset after a read) the first
\* read of delay returns exactly base_delay and every later read returns
\* a value v with min_delay <= v <= max_delay, whatever the round.
C26_RandomUniformRange ==
  (strategy.cls = "RandomUniformBackOff"
     /\ Len(read_values) = reads_since_reset)
  => \A i \in 1..Len(read_values) :
       IF i = 1
       THEN read_values[i] = strategy._base_delay
       ELSE /\ strategy._min_delay <= read_values[i]
            /\ read_values[i] <= strategy._max_delay

\* C27: for every BackOff variant, the reads after reset() are those of a
\* freshly constructed instance with the same parameters: the first read
\* after a reset returns base_delay, and reset() changes nothing but the
\* round.
C27_ResetAsFresh ==
  /\ [][ (ReadStep /\ reads_since_reset = 0)
         => read_values'[Len(read_values')] = strategy._base_delay ]_vars
  /\ [][ (IsBackOff(strategy) /\ read_values' = read_values)
         => strategy' = [strategy EXCEPT !._round = strategy'._round] ]_vars

\* C28: a strategy exists only when every parameter was valid:
\* base_delay >= 0, jitter a pair of non-negative numbers with
\* low <= high, step >= 0, max >= base_delay, min_delay and max_delay
\* non-negative; any other construction was rejected.
C28_InvalidParametersRejected ==
  IsBackOff(strategy) =>
    /\ strategy._base_delay >= 0
    /\ strategy.cls # "RandomUniformBackOff" =>
         \/ strategy._jitter = None
         \/ /\ 0 <= strategy._jitter[1]
            /\ strategy._jitter[1] <= strategy._jitter[2]
    /\ strategy.cls = "LinearBackOff" => strategy._step >= 0
    /\ strategy.cls \in {"LinearBackOff", "ExponentialBackOff"} =>
         \/ strategy._max = None
         \/ strategy._max[1] >= strategy._base_delay
    /\ strategy.cls = "RandomUniformBackOff" =>
         /\ strategy._min_delay >= 0
         /\ strategy._max_delay >= 0

\* the kinds of value each parameter's annotation admits
ValidKinds(p) ==
  CASE p \in {"exceptions", "excluded_exceptions"} ->
         {"tuple_of_exceptions"}
    [] p = "max_retries" ->
         {"None", "int", "zero", "negative_int", "bool"}
    [] p = "backoff" -> {"BackOff"}
    [] p \in {"timeout", "deadline"} ->
         {"None", "int", "zero", "negative_int", "float", "bool"}
    [] p = "logger" -> {"None", "Logger"}
    [] p \in {"log_retry_traceback", "reraise_exception"} -> {"bool"}
    [] p \in {"failure_callback", "retry_callback",
              "successful_retry_callback"} -> {"None", "function"}

\* the parameters C29 lists
ListedParameters == Parameters \ {"excluded_exceptions"}

C32_OverridesForOneCall ==
  adapter.kind # "none" =>
    /\ adapter.kwargs = adapter.bound
    /\ adapter.calls > 0 =>
         /\ \A k \in DOMAIN adapter.override_kwargs :
              adapter.runtime_kwargs[k] = adapter.override_kwargs[k]
         /\ \A k \in DOMAIN adapter.bound \ DOMAIN adapter.override_kwargs :
              adapter.runtime_kwargs[k] = adapter.bound[k]
         /\ DOMAIN adapter.runtime_kwargs =
              DOMAIN adapter.bound \cup DOMAIN adapter.override_kwargs
         /\ adapter.override_kwargs = EmptyDict =>
              adapter.runtime_kwargs = adapter.bound

\* bound x = 0, y = 1: a call with overrides, then one without
C32_Witness ==
  /\ adapter.kind = "CallbackFactory"
  /\ adapter.bound = [k \in {"x", "y"} |-> IF k = "x" THEN 0 ELSE 1]
  /\ adapter.calls = 2
  /\ adapter.overridden
  /\ adapter.override_kwargs = EmptyDict
  /\ adapter.runtime_kwargs = adapter.bound

\* the delay the wrapper's private copy gives in round r
RoundDelay(r) == CalculateNextDelay([_backoff EXCEPT !._round = r])._delay

\* C33: after a retryable failure that is not terminal the wrapper reads
\* the next delay, then logs the retry, then calls retry_callback, then
\* sleeps for the delay just read and increments retries, and only then
\* runs the next timeout check: each count is at most one step ahead of
\* the next in that order, and the j-th sleep lasts the delay of round
\* j-1.
C33_RetryStepOrder ==
  /\ []( /\ sleeps = retries
         /\ sleeps <= retry_cb_calls
         /\ retry_cb_calls <= retry_logs
         /\ retry_logs <= delay_reads
         /\ delay_reads <= sleeps + 1
         /\ _backoff._round = delay_reads
         /\ delay_reads > 0 => delay = RoundDelay(delay_reads - 1)
         /\ Truthy(timeout) =>
              /\ timeout_checks \in {retries, retries + 1}
              /\ delay_reads > sleeps => timeout_checks = retries + 1 )
  /\ [][ sleeps' = sleeps + 1 =>
           /\ delay_reads = sleeps + 1
           /\ retry_logs = sleeps + 1
           /\ retry_cb_calls = sleeps + 1
           /\ delay = RoundDelay(sleeps)
           /\ clock = "real" => now' = now + delay
           /\ retries' = retries + 1
           /\ Truthy(timeout) => timeout_checks' = retries'
           /\ calls' = calls ]_vars

\* two failed attempts, each followed by a delay read, a diagnostic, a
\* retry_callback call and a sleep of one second; the third iteration is
\* at its timeout check
C33_Witness ==
  /\ pc = "precheck"
  /\ clock = "real"
  /\ _backoff._base_delay = 1
  /\ timeout = Some(2)
  /\ retries = 2
  /\ delay_reads = 2
  /\ retry_logs = 2
  /\ retry_cb_calls = 2
  /\ sleeps = 2
  /\ timeout_checks = 2
  /\ now - start_time = 2

\* the last attempt returned normally
LastAttemptReturned ==
  op_trace # <<>> /\ op_trace[Len(op_trace)] = "return"

\* C34: with a timeout and no deadline, once an attempt has returned
\* normally no terminal signal is constructed and no further check or
\* attempt runs; the wrapper ends by returning that attempt's result,
\* however far the elapsed time is above the timeout.
C34_TimeoutNeverDiscardsResult ==
  (Truthy(timeout) /\ deadline = None /\ LastAttemptReturned)
  => /\ pc \in {"postcheck", "success", "done"}
     /\ result = calls
     /\ signals = <<>>
     /\ failure_cb_calls = 0
     /\ timeout_checks = calls
     /\ pc = "done" => outcome = Returned(result)

\* timeout 1: the attempt passed its check at 0 seconds and returned at 3
C34_Witness ==
  /\ timeout = Some(1)
  /\ deadline = None
  /\ clock = "real"
  /\ op_trace = <<"return">>
  /\ elapsed_time_before = Some(0)
  /\ now - start_time = 3
  /\ pc = "done"
  /\ outcome = Returned(1)

\* the invocations of the operation so far that raised a retryable error
RetryableFailures ==
  Cardinality({i \in 1..Len(op_trace) : RetryableKind(op_trace[i])})

\* C35: at every iteration boundary (the wrapper is about to run the
\* timeout check of an iteration) the retry counter equals the delay reads
\* and the round of the wrapper's BackOff copy, the retry_callback calls
\* when one is configured, the sleeps and the invocations that raised a
\* retryable error; the operation has been invoked exactly retries times.
C35_CountersAtIterationBoundary ==
  pc = "precheck" =>
    /\ delay_reads = retries
    /\ _backoff._round = retries
    /\ retry_callback => retry_cb_calls = retries
    /\ sleeps = retries
    /\ RetryableFailures = retries
    /\ calls = retries
    /\ Len(op_trace) = retries

\* the third iteration begins: two attempts failed, two delays were read
C35_Witness ==
  /\ pc = "precheck"
  /\ retries = 2
  /\ retry_callback
  /\ op_trace = <<"ValueError", "TypeError">>
  /\ calls = 2
  /\ delay_reads = 2
  /\ _backoff._round = 2
  /\ retry_cb_calls = 2
  /\ sleeps = 2

\* C36: with an integer max_retries = n the operation has been invoked at
\* most n + 1 times in every state of the invocation.
C36_AtMostNPlusOneInvocations ==
  max_retries # None => calls <= max_retries[1] + 1

ClockAdvancesPerCycle ==
  clock = "mocked" \/ (clock = "real" /\ backoff._base_delay > 0)

\* C38: with a positive timeout, no max_retries and a clock that advances
\* in every attempt cycle the invocation ends; if the operation failed
\* with a retryable error every time, a RetriesTimeoutException was
\* raised in the wrapper and, reraise_exception being off, reached the
\* caller; and the operation is never invoked in an iteration whose check
\* measured an elapsed time above the timeout.
C38_TimeoutEndsTheRetrying ==
  /\ ClockAdvancesPerCycle => <>(pc = "done")
  /\ []( (ClockAdvancesPerCycle /\ pc = "done" /\ AlwaysFailing)
           => /\ signals = <<"RetriesTimeoutException">>
              /\ ~reraise_exception =>
                   outcome = Raised(Signal("RetriesTimeoutException")) )
  /\ []( pc = "call" =>
           /\ elapsed_time_before # None
           /\ elapsed_time_before[1] <= timeout[1] )

\* timeout 2 on the real clock with one second slept per retry: three
\* failed attempts, then the check at 3 seconds raises
C38_Witness ==
  /\ timeout = Some(2)
  /\ clock = "real"
  /\ backoff._base_delay = 1
  /\ ~reraise_exception
  /\ op_trace = <<"ValueError", "ValueError", "ValueError">>
  /\ elapsed_time_before = Some(3)
  /\ pc = "done"
  /\ outcome = Raised(Signal("RetriesTimeoutException"))

\* signal s has been constructed in this invocation
Constructed(s) == \E i \in 1..Len(signals) : signals[i] = s

\* C39: the time checks are strict and skipped for a budget of 0: a
\* RetriesTimeoutException exists only after a check that measured more
\* than the timeout, a RetriesDeadlineException only after one that
\* measured more than the deadline, so a measure equal to the budget lets
\* the attempt run or the result be returned; with a timeout of 0 no
\* timeout check runs and with a deadline of 0 no deadline check, and
\* neither signal is ever raised.
C39_BudgetBoundary ==
  /\ Constructed("RetriesTimeoutException") =>
       /\ Truthy(timeout)
       /\ elapsed_time_before # None
       /\ elapsed_time_before[1] > timeout[1]
  /\ Constructed("RetriesDeadlineException") =>
       /\ Truthy(deadline)
       /\ elapsed_time_after # None
       /\ elapsed_time_after[1] > deadline[1]
  /\ timeout = Some(0) => timeout_checks = 0 /\ elapsed_time_before = None
  /\ deadline = Some(0) => deadline_checks = 0 /\ elapsed_time_after = None
  /\ (pc \in {"call", "postcheck", "success"} /\ Truthy(timeout)) =>
       ~Constructed("RetriesTimeoutException")
  /\ (pc = "success" /\ Truthy(deadline)) =>
       ~Constructed("RetriesDeadlineException")

\* timeout 1 and deadline 1: the check before the attempt measured exactly
\* 1, the attempt ran, the check after it measured exactly 1 and the
\* result was returned
C39_Witness ==
  /\ timeout = Some(1)
  /\ deadline = Some(1)
  /\ elapsed_time_before = Some(1)
  /\ elapsed_time_after = Some(1)
  /\ op_trace = <<"return">>
  /\ pc = "done"
  /\ outcome = Returned(1)
  /\ signals = <<>>

\* max_retries and timeout are both configured
CapAndTimeout == max_retries # None /\ Truthy(timeout)

\* how many of MaxRetriesException and RetriesTimeoutException were
\* constructed in this invocation
CapOrTimeoutSignals ==
  Cardinality({i \in 1..Len(signals) :
                 signals[i] \in {"MaxRetriesException",
                                 "RetriesTimeoutException"}})

\* the timeout check of the iteration with retries = max_retries found the
\* timeout exceeded
TimeoutAtLastIteration ==
  /\ CapAndTimeout
  /\ Constructed("RetriesTimeoutException")
  /\ retries = max_retries[1]

\* MaxRetriesException comes from an iteration whose timeout check passed
\* and whose attempt failed with a retryable error
MaxRetriesAfterFailedAttempt ==
  (CapAndTimeout /\ Constructed("MaxRetriesException")) =>
    /\ retries = max_retries[1]
    /\ calls = retries + 1
    /\ timeout_checks = calls
    /\ elapsed_time_before[1] <= timeout[1]
    /\ RetryableKind(op_trace[Len(op_trace)])

\* C40 as stated: with max_retries and timeout both configured, a timeout
\* found exceeded at the iteration with retries = max_retries gives the
\* caller RetriesTimeoutException after max_retries invocations,
\* MaxRetriesException comes only from an iteration whose check passed and
\* whose attempt failed, and every invocation that ended has constructed
\* exactly one of the two signals.
C40_AsStated ==
  /\ (TimeoutAtLastIteration /\ pc = "done") =>
       /\ calls = max_retries[1]
       /\ outcome = Raised(Signal("RetriesTimeoutException"))
  /\ MaxRetriesAfterFailedAttempt
  /\ (CapAndTimeout /\ pc = "done") => CapOrTimeoutSignals = 1

\* the invocation ended by raising one of the two signals to the caller
EndedByCapOrTimeout ==
  /\ pc = "done"
  /\ outcome \in {Raised(Signal("MaxRetriesException")),
                   Raised(Signal("RetriesTimeoutException"))}

\* C40: with max_retries and timeout both configured, a timeout found
\* exceeded at the iteration with retries = max_retries ends the
\* invocation after max_retries invocations of the operation, with
\* RetriesTimeoutException for the caller unless reraise_exception puts
\* the last underlying error in its place; MaxRetriesException comes only
\* from an iteration whose check passed and whose attempt failed; at most
\* one of the two signals is constructed in an invocation, and exactly one
\* when the invocation ends by raising one of them.
C40_CapAndTimeoutInterleaved ==
  /\ TimeoutAtLastIteration =>
       /\ calls = max_retries[1]
       /\ signals = <<"RetriesTimeoutException">>
       /\ (pc = "done" /\ ~reraise_exception) =>
            outcome = Raised(Signal("RetriesTimeoutException"))
  /\ MaxRetriesAfterFailedAttempt
  /\ CapAndTimeout => CapOrTimeoutSignals <= 1
  /\ (CapAndTimeout /\ EndedByCapOrTimeout) => CapOrTimeoutSignals = 1

\* max_retries 1 and timeout 1 on the mocked clock: the first check
\* measures 1 and passes, the attempt fails, the check of the iteration
\* with retries = 1 measures 2
C40_Witness ==
  /\ max_retries = Some(1)
  /\ timeout = Some(1)
  /\ clock = "mocked"
  /\ retries = 1
  /\ op_trace = <<"ValueError">>
  /\ elapsed_time_before = Some(2)
  /\ signals = <<"RetriesTimeoutException">>
  /\ pc = "done"
  /\ outcome = Raised(Signal("RetriesTimeoutException"))

====
